---- MODULE Spec2Model ----
(***************************************************************************)
(* Workout ingestion: the FIT-file normaliser, the Strava normaliser, the  *)
(* SQLite persistence layer and the Streamlit flows that call them.        *)
(*                                                                         *)
(* Python values are tagged records, so that None, int, float, str and     *)
(* datetime stay distinct and every coercion is computed:                  *)
(*   None | Num(n) | Float(m) (m in thousandths) | Str(s) | Fmt(f, n)      *)
(*   (a str holding date n written in format f) | FStr(p, x) (the f-string *)
(*   p{x}) | DT(n) (a datetime).                                           *)
(* A Python dict is a function whose DOMAIN is its key set.                *)
(***************************************************************************)
EXTENDS Integers, Sequences, FiniteSets, TLC

VARIABLES
    workouts,          \* rows of table workouts
    data_points,       \* rows of table data_points
    intervals,         \* rows of table intervals
    sqlite_sequence,   \* AUTOINCREMENT high-water mark of each table
    strava_id_column,  \* whether workouts has the strava_id column
    last               \* the last operation: its name, arguments and result

vars == <<workouts, data_points, intervals, sqlite_sequence, strava_id_column, last>>
db == <<workouts, data_points, intervals, sqlite_sequence>>

----------------------------------------------------------------------------
(* Bounds of the model *)

MaxWorkouts == 2     \* workout ids handed out in one behaviour

----------------------------------------------------------------------------
(* Python values *)

None == [t |-> "None"]
Num(n) == [t |-> "int", v |-> n]
Float(m) == [t |-> "float", milli |-> m]
Str(s) == [t |-> "str", s |-> s]
Fmt(f, n) == [t |-> "str", f |-> f, n |-> n]
FStr(prefix, x) == [t |-> "str", prefix |-> prefix, of |-> x]
DT(n) == [t |-> "datetime", sec |-> n]

\* Decimal strings the model knows, with the integer each one denotes.
Numerals == ("0" :> 0) @@ ("7" :> 7) @@ ("150" :> 150)

IsNumeral(x) == x.t = "str" /\ DOMAIN x = {"t", "s"} /\ x.s \in DOMAIN Numerals

\* bool(x)
Truthy(x) ==
    CASE x.t = "None" -> FALSE
      [] x.t = "int" -> x.v # 0
      [] x.t = "float" -> x.milli # 0
      [] x.t = "str" -> x # Str("")
      [] OTHER -> TRUE

\* d.get(k): the value under k, None when the key is absent
Get(d, k) == IF k \in DOMAIN d THEN d[k] ELSE None

\* d.get(k, default)
GetDefault(d, k, default) == IF k \in DOMAIN d THEN d[k] ELSE default

\* The outcome of a conversion that raises ValueError / TypeError.
Raise == [t |-> "raise"]

\* int(x)
PyInt(x) ==
    CASE x.t = "int" -> x
      [] x.t = "float" -> Num(x.milli \div 1000)
      [] IsNumeral(x) -> Num(Numerals[x.s])
      [] OTHER -> Raise

\* float(x)
PyFloat(x) ==
    CASE x.t = "int" -> Float(x.v * 1000)
      [] x.t = "float" -> x
      [] IsNumeral(x) -> Float(Numerals[x.s] * 1000)
      [] OTHER -> Raise

----------------------------------------------------------------------------
(* data/storage.py: save_workout_data *)

\* v = d.get(k); if v is not None: try: v = int(v) except: v = None
CoerceInt(x) ==
    IF x = None THEN None
    ELSE IF PyInt(x) = Raise THEN None ELSE PyInt(x)

CoerceFloat(x) ==
    IF x = None THEN None
    ELSE IF PyFloat(x) = Raise THEN None ELSE PyFloat(x)

\* The row the INSERT INTO workouts statement writes for workout_data.
WorkoutRow(id, workout_data) ==
    [ id |-> id,
      date |-> Get(workout_data, "date"),
      name |-> Get(workout_data, "name"),
      source |-> Get(workout_data, "source"),
      file_path |-> Get(workout_data, "file_path"),
      total_time |-> CoerceInt(Get(workout_data, "total_time")),
      total_distance |-> CoerceFloat(Get(workout_data, "total_distance")),
      avg_power |-> CoerceInt(Get(workout_data, "avg_power")),
      avg_hr |-> CoerceInt(Get(workout_data, "avg_hr")),
      tss |-> CoerceFloat(Get(workout_data, "tss")),
      ftp |-> CoerceInt(Get(workout_data, "ftp")),
      max_hr |-> CoerceInt(Get(workout_data, "max_hr")),
      work_kj |-> CoerceFloat(Get(workout_data, "work_kj")),
      strava_id |-> CoerceInt(Get(workout_data, "strava_id")) ]

\* Whether the INSERT INTO workouts raises: the statement names the column
\* strava_id, and date is declared NOT NULL.
WorkoutInsertRaises(workout_data) ==
    \/ ~strava_id_column
    \/ Get(workout_data, "date") = None

\* The row the INSERT INTO data_points statement writes for one point.
PointRow(id, workout_id, point) ==
    [ id |-> id,
      workout_id |-> workout_id,
      interval_id |-> None,
      timestamp |-> CoerceInt(Get(point, "timestamp")),
      power |-> CoerceInt(Get(point, "power")),
      heart_rate |-> CoerceInt(Get(point, "heart_rate")),
      cadence |-> CoerceInt(Get(point, "cadence")) ]

\* A point is skipped (continue) when its coerced timestamp is None.
PointSkipped(point) == CoerceInt(Get(point, "timestamp")) = None

\* Mutant: the first point without a usable timestamp ends the loop; the
\* points after it are not stored.
InsertPointsUntilSkipped(points, n, workout_id, base) ==
    LET skipped == {k \in 1..n : PointSkipped(points[k])}
        stop == IF skipped = {} THEN n
                ELSE (CHOOSE k \in skipped : \A j \in skipped : k <= j) - 1
    IN  [ rows |-> {PointRow(base + k, workout_id, points[k]) : k \in 1..stop},
          seq |-> base + stop ]

\* The loop over data_points: rows inserted for points[1..n], ids counted
\* up from the table's high-water mark `base`.
RECURSIVE InsertPoints(_, _, _, _)
InsertPoints(points, n, workout_id, base) ==
    IF n = 0 THEN [rows |-> {}, seq |-> base]
    ELSE LET before == InsertPoints(points, n - 1, workout_id, base)
         IN  IF PointSkipped(points[n]) THEN before
             ELSE [ rows |-> before.rows \cup
                               {PointRow(before.seq + 1, workout_id, points[n])},
                    seq |-> before.seq + 1 ]

\* The tables as the transaction of save_workout_data leaves them just
\* before conn.commit().
SavePending(workout_data, points) ==
    LET workout_id == sqlite_sequence.workouts + 1
        ins == InsertPoints(points, Len(points), workout_id,
                            sqlite_sequence.data_points)
    IN  [ workouts |-> workouts \cup {WorkoutRow(workout_id, workout_data)},
          data_points |-> data_points \cup ins.rows,
          intervals |-> intervals,
          sqlite_sequence |-> [sqlite_sequence EXCEPT
                                 !.workouts = workout_id,
                                 !.data_points = ins.seq] ]

\* The tables as they were when the transaction began.
Current ==
    [ workouts |-> workouts, data_points |-> data_points,
      intervals |-> intervals, sqlite_sequence |-> sqlite_sequence ]

\* Mutant: the handler does not roll back, the pending statements stay.
RollbackKeepsPending(pending) == pending

\* conn.rollback(): every statement of the open transaction is undone.
Rollback(pending) == Current

\* save_workout_data(workout_data, data_points); `fault` is where the storage
\* raises for a reason outside the arguments ("commit": conn.commit() raises).
\* Gives the tables after the call and the value returned.
SaveResult(workout_data, points, fault) ==
    IF WorkoutInsertRaises(workout_data)
    THEN [tables |-> Rollback(Current), ret |-> None]
    ELSE IF fault = "commit"
    THEN [tables |-> Rollback(SavePending(workout_data, points)), ret |-> None]
    ELSE [ tables |-> SavePending(workout_data, points),
           ret |-> Num(sqlite_sequence.workouts + 1) ]

SetTables(tables) ==
    /\ workouts' = tables.workouts
    /\ data_points' = tables.data_points
    /\ intervals' = tables.intervals
    /\ sqlite_sequence' = tables.sqlite_sequence

----------------------------------------------------------------------------
(* data/storage.py: the dedup probes, the listing and the delete *)

\* SELECT id FROM workouts WHERE file_path = ? (NULL equals nothing)
check_workout_exists(file_path) ==
    /\ file_path # None
    /\ \E r \in workouts : r.file_path = file_path

\* SELECT id FROM workouts WHERE strava_id = ?; without the column the
\* statement raises and the handler answers False.
check_strava_activity_exists(strava_id) ==
    /\ strava_id_column
    /\ strava_id # None
    /\ \E r \in workouts : r.strava_id = strava_id

\* The columns the SELECT of get_all_workouts names.
ListColumns ==
    { "id", "date", "name", "source", "total_time", "total_distance",
      "avg_power", "avg_hr", "tss", "ftp", "max_hr", "work_kj", "strava_id" }

\* dict(row)
ListedRow(r) == [c \in ListColumns |-> r[c]]

\* The position of a date in SQLite's ordering of TEXT values written in
\* one format: the formatted dates sort as the instants they denote.
DateKey(date) == IF "n" \in DOMAIN date THEN date.n ELSE 0

\* ORDER BY date DESC over a set of rows (ties in rowid order).
RECURSIVE OrderByDateDesc(_)
OrderByDateDesc(rows) ==
    IF rows = {} THEN <<>>
    ELSE LET first == CHOOSE r \in rows : \A q \in rows :
                         \/ DateKey(r.date) > DateKey(q.date)
                         \/ DateKey(r.date) = DateKey(q.date) /\ r.id <= q.id
         IN  <<first>> \o OrderByDateDesc(rows \ {first})

\* Rows in rowid order.
RECURSIVE OrderByRowid(_)
OrderByRowid(rows) ==
    IF rows = {} THEN <<>>
    ELSE LET first == CHOOSE r \in rows : \A q \in rows : r.id <= q.id
         IN  <<first>> \o OrderByRowid(rows \ {first})

\* Mutant: the SELECT has no ORDER BY clause.
GetAllWorkoutsUnordered ==
    IF ~strava_id_column THEN <<>>
    ELSE LET rows == OrderByRowid(workouts)
         IN  [i \in 1..Len(rows) |-> ListedRow(rows[i])]

\* get_all_workouts(): the listed dicts; [] when the SELECT raises.
get_all_workouts ==
    IF ~strava_id_column THEN <<>>
    ELSE LET rows == OrderByDateDesc(workouts)
         IN  [i \in 1..Len(rows) |-> ListedRow(rows[i])]

\* Mutant: only the workout row is deleted, its children stay.
DeleteWorkoutRowOnly(workout_id) ==
    [ workouts |-> {r \in workouts : Num(r.id) # workout_id},
      data_points |-> data_points,
      intervals |-> intervals,
      sqlite_sequence |-> sqlite_sequence ]

\* Mutant: ids come from the largest stored rowid, so a delete of the newest
\* workout frees its id.
DeletePendingFreesId(workout_id) ==
    LET kept == {r \in workouts : Num(r.id) # workout_id}
    IN  [ workouts |-> kept,
          data_points |-> {p \in data_points : Num(p.workout_id) # workout_id},
          intervals |-> {i \in intervals : Num(i.workout_id) # workout_id},
          sqlite_sequence |->
              [sqlite_sequence EXCEPT
                 !.workouts = IF kept = {} THEN 0
                              ELSE CHOOSE n \in {r.id : r \in kept} :
                                     \A r \in kept : r.id <= n] ]

\* The tables as the transaction of delete_workout leaves them just before
\* conn.commit(): the three DELETE statements.
DeletePending(workout_id) ==
    [ workouts |-> {r \in workouts : Num(r.id) # workout_id},
      data_points |-> {p \in data_points : Num(p.workout_id) # workout_id},
      intervals |-> {i \in intervals : Num(i.workout_id) # workout_id},
      sqlite_sequence |-> sqlite_sequence ]

\* The tables of the open transaction when the statement named by `fault`
\* raises: the DELETE statements before it have run.
DeletePendingAt(workout_id, fault) ==
    LET pending == DeletePending(workout_id)
    IN  IF fault = "delete_data_points" THEN Current
        ELSE IF fault = "delete_intervals"
        THEN [Current EXCEPT !.data_points = pending.data_points]
        ELSE IF fault = "delete_workouts"
        THEN [pending EXCEPT !.workouts = workouts]
        ELSE pending

\* Mutant: a failed delete keeps what its statements had done.
DeleteWithoutRollback(workout_id, fault) ==
    IF fault # "none"
    THEN [tables |-> DeletePendingAt(workout_id, fault), ret |-> FALSE]
    ELSE [tables |-> DeletePending(workout_id), ret |-> TRUE]

\* Mutant: the answer of a delete tells whether a workout row was removed.
DeleteReportsRemoval(workout_id, fault) ==
    IF fault # "none"
    THEN [tables |-> Rollback(DeletePendingAt(workout_id, fault)), ret |-> FALSE]
    ELSE [ tables |-> DeletePending(workout_id),
           ret |-> \E r \in workouts : Num(r.id) = workout_id ]

\* delete_workout(workout_id): the tables after the call and the value
\* returned; `fault` names the statement that raises ("none": no statement,
\* "commit": conn.commit()).
DeleteResult(workout_id, fault) ==
    IF fault # "none"
    THEN [tables |-> Rollback(DeletePendingAt(workout_id, fault)), ret |-> FALSE]
    ELSE [tables |-> DeletePending(workout_id), ret |-> TRUE]

----------------------------------------------------------------------------
(* data/storage.py: the connection of each public operation *)

PublicOperations ==
    { "save_workout_data", "check_workout_exists",
      "check_strava_activity_exists", "get_all_workouts", "delete_workout" }

\* The ways a call can leave: the try block returned, a statement raised
\* and the handler ran, or get_db_connection() itself raised.
ExitPaths == {"success", "handled_error", "connect_failure"}

\* The local name conn before the try block: save_workout_data assigns None
\* to it, the other operations do not assign it.
ConnBeforeTry(operation) ==
    IF operation = "save_workout_data" THEN "None" ELSE "unbound"

\* The local name conn when the finally block runs.
ConnAtFinally(operation, path) ==
    IF path = "connect_failure" THEN ConnBeforeTry(operation) ELSE "open"

\* A call of a public operation along one exit path: whether an exception
\* leaves the function (`if conn:` on an unbound name raises
\* UnboundLocalError) and how many connections it leaves open.
StorageExit(operation, path) ==
    LET conn == ConnAtFinally(operation, path)
        opened == IF path = "connect_failure" THEN 0 ELSE 1
        closed == IF conn = "open" THEN 1 ELSE 0
    IN  [ raised |-> conn = "unbound", open |-> opened - closed ]

----------------------------------------------------------------------------
(* models/database.py, models/update_db.py: the schema *)

\* The database as init_db creates it: three empty tables, and a workouts
\* table without the strava_id column.
InitDb ==
    /\ workouts = {}
    /\ data_points = {}
    /\ intervals = {}
    /\ sqlite_sequence = [workouts |-> 0, data_points |-> 0, intervals |-> 0]
    /\ strava_id_column = FALSE

\* update_database_schema(): ALTER TABLE workouts ADD COLUMN strava_id
update_database_schema ==
    /\ ~strava_id_column
    /\ strava_id_column' = TRUE
    /\ last' = [op |-> "update_database_schema"]
    /\ UNCHANGED db

\* A row of table intervals, written for the newest stored workout by the
\* analysis side (the table's only writer is outside these sources).
InsertInterval ==
    /\ \E w \in workouts :
         /\ w.id = sqlite_sequence.workouts
         /\ \A i \in intervals : i.workout_id # w.id
         /\ intervals' = intervals \cup
               {[id |-> sqlite_sequence.intervals + 1, workout_id |-> w.id]}
         /\ sqlite_sequence' = [sqlite_sequence EXCEPT
                                  !.intervals = sqlite_sequence.intervals + 1]
         /\ last' = [op |-> "insert_interval", workout_id |-> Num(w.id)]
    /\ UNCHANGED <<workouts, data_points, strava_id_column>>

----------------------------------------------------------------------------
(* data/parsers/fit_parser.py *)

\* record.get_value(name): None when the message has no such field
get_value(record, name) == Get(record, name)

\* strftime('%Y-%m-%d %H:%M:%S') of instant n
DateStr(n) == Fmt("%Y-%m-%d %H:%M:%S", n)

\* start_time.strftime(...): only a datetime has the method
Strftime(x) == IF x.t = "datetime" THEN DateStr(x.sec) ELSE Raise

\* int(timestamp.timestamp())
UnixTime(x) == IF x.t = "datetime" THEN Num(x.sec) ELSE Raise

\* Mutant: the value is set whenever it is not None, a 0 included.
SetIfPresent(d, key, raw, conv) ==
    IF d = Raise THEN Raise
    ELSE IF raw = None THEN d
    ELSE IF conv = Raise THEN Raise
    ELSE [k \in DOMAIN d \cup {key} |-> IF k = key THEN conv ELSE d[k]]

\* if raw: d[key] = conv; a conversion that raises ends the parse
SetIfTruthy(d, key, raw, conv) ==
    IF d = Raise THEN Raise
    ELSE IF ~Truthy(raw) THEN d
    ELSE IF conv = Raise THEN Raise
    ELSE [k \in DOMAIN d \cup {key} |-> IF k = key THEN conv ELSE d[k]]

\* A file path dir/base, and os.path.basename of it
Path(dir, base) == [t |-> "str", dir |-> dir, base |-> base]
Basename(path) == Str(path.base)

\* FitParser.__init__: the workout dict before any message is read
FitInitialWorkout(file_path) ==
    [ date |-> None, name |-> Basename(file_path), source |-> Str("fit_file"),
      file_path |-> file_path, total_time |-> None, total_distance |-> None,
      avg_power |-> None, avg_hr |-> None, tss |-> None, ftp |-> None,
      max_hr |-> None, work_kj |-> None ]

\* The body of the loop over session messages, for one message.
SessionStep(d, record) ==
    LET start_time == get_value(record, "start_time")
        total_time == get_value(record, "total_elapsed_time")
        total_distance == get_value(record, "total_distance")
        avg_power == get_value(record, "avg_power")
        avg_hr == get_value(record, "avg_heart_rate")
        work == get_value(record, "total_work")
        d1 == SetIfTruthy(d, "date", start_time, Strftime(start_time))
        d2 == SetIfTruthy(d1, "total_time", total_time, PyInt(total_time))
        d3 == SetIfTruthy(d2, "total_distance", total_distance,
                          PyFloat(total_distance))
        d4 == SetIfTruthy(d3, "avg_power", avg_power, PyInt(avg_power))
        d5 == SetIfTruthy(d4, "avg_hr", avg_hr, PyInt(avg_hr))
    IN  SetIfTruthy(d5, "work_kj", work, PyFloat(work))

ProfileStep(d, record) ==
    LET max_hr == get_value(record, "max_heart_rate")
    IN  SetIfTruthy(d, "max_hr", max_hr, PyInt(max_hr))

ZonesStep(d, record) ==
    LET ftp == get_value(record, "functional_threshold_power")
    IN  SetIfTruthy(d, "ftp", ftp, PyInt(ftp))

\* for record in messages[1..n]: d = Step(d, record)
RECURSIVE FoldMessages(_, _, _, _)
FoldMessages(Step(_, _), d, messages, n) ==
    IF n = 0 THEN d
    ELSE Step(FoldMessages(Step, d, messages, n - 1), messages[n])

\* FitParser._extract_workout_info, with _extract_user_profile at its end
extract_workout_info(file_path, fit) ==
    LET d1 == FoldMessages(SessionStep, FitInitialWorkout(file_path),
                           fit.session, Len(fit.session))
        d2 == FoldMessages(ProfileStep, d1, fit.user_profile,
                           Len(fit.user_profile))
    IN  FoldMessages(ZonesStep, d2, fit.zones_target, Len(fit.zones_target))

\* Mutant: a record without a timestamp still gives a data point, made of
\* its other fields.
FitPointKeepsUntimed(record) ==
    LET timestamp == get_value(record, "timestamp")
        power == get_value(record, "power")
        p0 == IF Truthy(timestamp) THEN [timestamp |-> UnixTime(timestamp)]
              ELSE <<>>
    IN  IF Truthy(timestamp) /\ UnixTime(timestamp) = Raise THEN Raise
        ELSE SetIfTruthy(p0, "power", power, PyInt(power))

\* The data point one record message gives: Raise, "skip" (continue) or a dict
FitPoint(record) ==
    LET timestamp == get_value(record, "timestamp")
        power == get_value(record, "power")
        heart_rate == get_value(record, "heart_rate")
        cadence == get_value(record, "cadence")
    IN  IF ~Truthy(timestamp) THEN [t |-> "skip"]
        ELSE IF UnixTime(timestamp) = Raise THEN Raise
        ELSE LET p0 == [timestamp |-> UnixTime(timestamp)]
                 p1 == SetIfTruthy(p0, "power", power, PyInt(power))
                 p2 == SetIfTruthy(p1, "heart_rate", heart_rate,
                                   PyInt(heart_rate))
             IN  SetIfTruthy(p2, "cadence", cadence, PyInt(cadence))

\* FitParser._extract_data_points over records[1..n]: the list built, and
\* whether a conversion raised on the way
RECURSIVE FitPoints(_, _)
FitPoints(records, n) ==
    IF n = 0 THEN [raised |-> FALSE, points |-> <<>>]
    ELSE LET before == FitPoints(records, n - 1)
             point == FitPoint(records[n])
         IN  IF before.raised \/ point = Raise
             THEN [raised |-> TRUE, points |-> before.points]
             ELSE IF point = [t |-> "skip"] THEN before
             ELSE [raised |-> FALSE, points |-> Append(before.points, point)]

\* str(e) of the first exception raised inside FitParser.parse: by
\* FitFile(...), by _extract_workout_info or by _extract_data_points; None
\* when nothing raises.
FitFailure(file_path, fit) ==
    IF fit.corrupt THEN Str("FitFile")
    ELSE IF extract_workout_info(file_path, fit) = Raise
    THEN Str("_extract_workout_info")
    ELSE IF FitPoints(fit.record, Len(fit.record)).raised
    THEN Str("_extract_data_points")
    ELSE None

\* Mutant: the handler of parse logs the exception and returns what had
\* been extracted so far.
ParseFitReturnsPartial(file_path, fit) ==
    LET workout_data == extract_workout_info(file_path, fit)
        extracted == FitPoints(fit.record, Len(fit.record))
    IN  [ raised |-> FALSE,
          workout_data |-> IF fit.corrupt \/ workout_data = Raise
                           THEN FitInitialWorkout(file_path)
                           ELSE workout_data,
          data_points |-> IF fit.corrupt THEN <<>> ELSE extracted.points ]

\* parse_fit_file(file_path): the decoded file is `fit`; any exception of the
\* decoder or of the extraction is raised again as ValueError, whose message
\* ends with the message of that exception.
parse_fit_file(file_path, fit) ==
    LET failure == FitFailure(file_path, fit)
    IN  IF failure # None
        THEN [raised |-> TRUE, error |-> FStr("ValueError: ", failure)]
        ELSE [ raised |-> FALSE,
               workout_data |-> extract_workout_info(file_path, fit),
               data_points |-> FitPoints(fit.record, Len(fit.record)).points ]

----------------------------------------------------------------------------
(* data/parsers/strava_parser.py *)

\* not x, for a dict or None
Falsy(d) == d = None \/ DOMAIN d = {}

\* datetime.strptime(s, "%Y-%m-%dT%H:%M:%SZ").strftime('%Y-%m-%d %H:%M:%S');
\* a str in another format raises ValueError and gives the current time,
\* a value that is no str raises TypeError.
StravaDate(start_date, now) ==
    IF ~Truthy(start_date) THEN None
    ELSE IF start_date.t # "str" THEN Raise
    ELSE IF DOMAIN start_date = {"t", "f", "n"}
            /\ start_date.f = "%Y-%m-%dT%H:%M:%SZ"
         THEN DateStr(start_date.n)
         ELSE DateStr(now)

\* (avg_power * moving_time) / 1000
DerivedWork(avg_power, moving_time) ==
    IF avg_power.t = "int" /\ moving_time.t = "int"
    THEN Float(avg_power.v * moving_time.v)
    ELSE IF avg_power.t = "float" /\ moving_time.t = "int"
    THEN Float((avg_power.milli * moving_time.v) \div 1000)
    ELSE Raise

\* The work_kj of _extract_workout_data: the derived value first, the
\* reported kilojoules only when no derived value was computed.
StravaWork(activity) ==
    LET avg_power == Get(activity, "average_watts")
        moving_time == GetDefault(activity, "moving_time", Num(0))
        kilojoules == Get(activity, "kilojoules")
        work_kj == IF Truthy(avg_power) /\ Truthy(moving_time)
                   THEN DerivedWork(avg_power, moving_time)
                   ELSE None
    IN  IF work_kj = Raise THEN Raise
        ELSE IF Truthy(kilojoules) /\ ~Truthy(work_kj) THEN kilojoules
        ELSE work_kj

\* Mutant: the source key is built with another prefix than the one the
\* import section probes with.
ExtractWorkoutDataOtherPrefix(activity, now) ==
    LET date == StravaDate(Get(activity, "start_date"), now)
        work_kj == StravaWork(activity)
    IN  IF date = Raise \/ work_kj = Raise THEN Raise
        ELSE [ date |-> date,
               name |-> GetDefault(activity, "name",
                          FStr("Strava Activity ", Get(activity, "id"))),
               source |-> Str("strava"),
               file_path |-> FStr("remote_", Get(activity, "id")),
               total_time |-> GetDefault(activity, "elapsed_time", Num(0)),
               total_distance |-> GetDefault(activity, "distance", Float(0)),
               avg_power |-> Get(activity, "average_watts"),
               avg_hr |-> Get(activity, "average_heartrate"),
               tss |-> None,
               ftp |-> None,
               max_hr |-> None,
               work_kj |-> work_kj,
               strava_id |-> Get(activity, "id") ]

\* StravaParser._extract_workout_data(activity): Raise or the workout dict
extract_workout_data(activity, now) ==
    LET date == StravaDate(Get(activity, "start_date"), now)
        work_kj == StravaWork(activity)
    IN  IF date = Raise \/ work_kj = Raise THEN Raise
        ELSE [ date |-> date,
               name |-> GetDefault(activity, "name",
                          FStr("Strava Activity ", Get(activity, "id"))),
               source |-> Str("strava"),
               file_path |-> FStr("strava_", Get(activity, "id")),
               total_time |-> GetDefault(activity, "elapsed_time", Num(0)),
               total_distance |-> GetDefault(activity, "distance", Float(0)),
               avg_power |-> Get(activity, "average_watts"),
               avg_hr |-> Get(activity, "average_heartrate"),
               tss |-> None,
               ftp |-> None,
               max_hr |-> None,
               work_kj |-> work_kj,
               strava_id |-> Get(activity, "id") ]

\* A Python list that may stand where None may stand too: List(xs). A
\* channel of the streams is a bare list, List(xs), or a container with
\* the list under 'data', Wrapped(xs).
List(xs) == [t |-> "list", items |-> xs]
Wrapped(xs) == [t |-> "dict", data |-> xs]

\* The list read for one channel: [] when the key is absent or the value has
\* neither shape.
Channel(streams, key) ==
    IF key \notin DOMAIN streams THEN <<>>
    ELSE LET x == streams[key]
         IN  IF x.t = "dict" /\ "data" \in DOMAIN x THEN x.data
             ELSE IF x.t = "list" THEN x.items
             ELSE <<>>

\* Mutant: a null entry of a channel is stored as 0.
AddChannelValueNullAsZero(point, key, stream, i) ==
    IF i <= Len(stream) /\ (stream[i] = None \/ PyInt(stream[i]) # Raise)
    THEN [k \in DOMAIN point \cup {key} |->
            IF k = key
            THEN (IF stream[i] = None THEN Num(0) ELSE PyInt(stream[i]))
            ELSE point[k]]
    ELSE point

\* if i < len(stream) and stream[i] is not None: try int(...) except: pass
AddChannelValue(point, key, stream, i) ==
    IF i <= Len(stream) /\ stream[i] # None /\ PyInt(stream[i]) # Raise
    THEN [k \in DOMAIN point \cup {key} |->
            IF k = key THEN PyInt(stream[i]) ELSE point[k]]
    ELSE point

\* Mutant: the clock is read again for every point, one tick later each time.
StravaPointClockPerPoint(streams, start_time, i) ==
    LET offset == PyInt(Channel(streams, "time")[i])
    IN  IF offset = Raise THEN Raise
        ELSE LET p0 == [timestamp |-> Num(start_time + (i - 1) + offset.v)]
                 p1 == AddChannelValue(p0, "heart_rate",
                                       Channel(streams, "heartrate"), i)
                 p2 == AddChannelValue(p1, "power",
                                       Channel(streams, "watts"), i)
             IN  AddChannelValue(p2, "cadence",
                                 Channel(streams, "cadence"), i)

\* The data point of index i: start_time + int(time_stream[i]) and the
\* values of the other channels; Raise when the offset is no number.
StravaPoint(streams, start_time, i) ==
    LET offset == PyInt(Channel(streams, "time")[i])
    IN  IF offset = Raise THEN Raise
        ELSE LET p0 == [timestamp |-> Num(start_time + offset.v)]
                 p1 == AddChannelValue(p0, "heart_rate",
                                       Channel(streams, "heartrate"), i)
                 p2 == AddChannelValue(p1, "power",
                                       Channel(streams, "watts"), i)
             IN  AddChannelValue(p2, "cadence",
                                 Channel(streams, "cadence"), i)

\* Mutant: the loop runs over the indices every present channel has.
ExtractOverCommonIndices(streams, start_time) ==
    LET time_stream == Channel(streams, "time")
        common == {i \in DOMAIN time_stream :
                     \A k \in {"heartrate", "watts", "cadence"} :
                        k \in DOMAIN streams => i <= Len(Channel(streams, k))}
    IN  IF time_stream = <<>> THEN [raised |-> FALSE, points |-> <<>>]
        ELSE IF \E i \in DOMAIN time_stream :
                  StravaPoint(streams, start_time, i) = Raise
        THEN [raised |-> TRUE, points |-> <<>>]
        ELSE [ raised |-> FALSE,
               points |-> [i \in 1..Cardinality(common) |->
                             StravaPoint(streams, start_time, i)] ]

\* Mutant: an empty elapsed-time channel is an error.
ExtractEmptyTimeRaises(streams, start_time) ==
    LET time_stream == Channel(streams, "time")
    IN  IF time_stream = <<>> \/ \E i \in DOMAIN time_stream :
                  StravaPoint(streams, start_time, i) = Raise
        THEN [raised |-> TRUE, points |-> <<>>]
        ELSE [ raised |-> FALSE,
               points |-> [i \in DOMAIN time_stream |->
                             StravaPoint(streams, start_time, i)] ]

\* StravaParser._extract_data_points(streams): the list built, and whether
\* a conversion raised; start_time is int(time.time()), read once.
extract_data_points(streams, start_time) ==
    LET time_stream == Channel(streams, "time")
    IN  IF time_stream = <<>> THEN [raised |-> FALSE, points |-> <<>>]
        ELSE IF \E i \in DOMAIN time_stream :
                  StravaPoint(streams, start_time, i) = Raise
        THEN [raised |-> TRUE, points |-> <<>>]
        ELSE [ raised |-> FALSE,
               points |-> [i \in DOMAIN time_stream |->
                             StravaPoint(streams, start_time, i)] ]

\* Mutant: an exception of the point extraction is handled there and gives
\* the workout with None for the points.
ParseStravaKeepsWorkout(activity, streams, now) ==
    IF Falsy(activity) \/ Falsy(streams)
    THEN [workout_data |-> None, data_points |-> None]
    ELSE LET workout_data == extract_workout_data(activity, now)
             extracted == extract_data_points(streams, now)
         IN  IF workout_data = Raise
             THEN [workout_data |-> None, data_points |-> None]
             ELSE [ workout_data |-> workout_data,
                    data_points |-> IF extracted.raised THEN None
                                    ELSE List(extracted.points) ]

\* parse_strava_activity(strava_service, activity_id): activity and streams
\* are what get_activity and get_activity_streams answer (None when the
\* service is unavailable), now the wall clock. Gives the pair returned.
parse_strava_activity(activity, streams, now) ==
    IF Falsy(activity) \/ Falsy(streams)
    THEN [workout_data |-> None, data_points |-> None]
    ELSE LET workout_data == extract_workout_data(activity, now)
             extracted == extract_data_points(streams, now)
         IN  IF workout_data = Raise \/ extracted.raised
             THEN [workout_data |-> None, data_points |-> None]
             ELSE [ workout_data |-> workout_data,
                    data_points |-> List(extracted.points) ]

----------------------------------------------------------------------------
(* The storage operations called directly, with any arguments *)

\* A workout dict with every key a normaliser writes.
WorkoutDict(date, name, source, file_path, total_time) ==
    [ date |-> date, name |-> name, source |-> source, file_path |-> file_path,
      total_time |-> total_time, total_distance |-> None, avg_power |-> None,
      avg_hr |-> None, tss |-> None, ftp |-> None, max_hr |-> None,
      work_kj |-> None ]

\* The workout dicts handed to save_workout_data.
StorageWorkouts ==
    { WorkoutDict(DateStr(1), Str("a.fit"), Str("fit_file"), Str("a.fit"), Str("abc")),
      WorkoutDict(None, Str("b.fit"), Str("fit_file"), Str("b.fit"), None),
      WorkoutDict(DateStr(1), Str("c.fit"), Str("fit_file"), None, None),
      WorkoutDict(DateStr(2), Str("Ride"), Str("strava"), FStr("strava_", Num(7)), Str("150"))
        @@ [strava_id |-> Num(7)] }

\* Data point dicts: two with an integer timestamp, one whose timestamp is a
\* numeral, one whose timestamp cannot be coerced, one without the key.
PointA == [timestamp |-> Num(10), power |-> Num(200), heart_rate |-> Str("150"),
           cadence |-> Str("abc")]
PointB == [timestamp |-> Num(11), heart_rate |-> Num(150)]
PointNumeral == [timestamp |-> Str("7"), power |-> Float(200500)]
PointBadTs == [timestamp |-> Str("abc"), power |-> Num(200)]
PointNoTs == [power |-> Num(200)]

\* The data point lists handed to save_workout_data.
StoragePointLists ==
    { <<>>,
      <<PointA, PointB>>,
      <<PointA, PointBadTs, PointB>>,
      <<PointBadTs, PointNumeral, PointNoTs>>,
      <<PointNoTs, PointBadTs>> }

StorageFaults == {"none", "commit"}

SaveCall ==
    /\ sqlite_sequence.workouts < MaxWorkouts
    /\ \E workout_data \in StorageWorkouts,
          points \in StoragePointLists,
          fault \in StorageFaults :
         LET res == SaveResult(workout_data, points, fault)
         IN  /\ SetTables(res.tables)
             /\ last' = [ op |-> "save_workout_data",
                          workout_data |-> workout_data,
                          data_points |-> points,
                          fault |-> fault,
                          ret |-> res.ret ]
    /\ UNCHANGED strava_id_column

DeleteFaults ==
    {"none", "delete_data_points", "delete_intervals", "delete_workouts", "commit"}

DeleteCall ==
    /\ \E id \in 1..MaxWorkouts, fault \in DeleteFaults :
         LET res == DeleteResult(Num(id), fault)
         IN  /\ SetTables(res.tables)
             /\ last' = [ op |-> "delete_workout", workout_id |-> Num(id),
                          fault |-> fault, ret |-> res.ret ]
    /\ UNCHANGED strava_id_column

ListCall ==
    /\ last' = [op |-> "get_all_workouts", ret |-> get_all_workouts]
    /\ UNCHANGED <<db, strava_id_column>>

ProbeCall ==
    /\ \/ \E w \in StorageWorkouts :
            last' = [ op |-> "check_workout_exists", file_path |-> w.file_path,
                      ret |-> check_workout_exists(w.file_path) ]
       \/ \E id \in {None, Num(7)} :
            last' = [ op |-> "check_strava_activity_exists", strava_id |-> id,
                      ret |-> check_strava_activity_exists(id) ]
    /\ UNCHANGED <<db, strava_id_column>>

\* A public operation called with the connection fate chosen by the
\* environment, on the new database (the exit does not depend on the rows).
ExitCall ==
    /\ last.op = "init_db"
    /\ \E operation \in PublicOperations, path \in ExitPaths :
         last' = [ op |-> "storage_exit", operation |-> operation,
                   path |-> path, exit |-> StorageExit(operation, path) ]
    /\ UNCHANGED <<db, strava_id_column>>

InitStorage ==
    /\ InitDb
    /\ last = [op |-> "init_db"]

NextStorage ==
    \/ update_database_schema
    \/ SaveCall
    \/ DeleteCall
    \/ ListCall
    \/ ProbeCall
    \/ ExitCall
    \/ InsertInterval

SpecStorage == InitStorage /\ [][NextStorage]_vars

----------------------------------------------------------------------------
(* The normalisers called directly, with any input *)

MaxLen == 2          \* length of a record list / of a stream channel

\* Lists of at most n elements of S
ListsOf(S, n) == UNION {[1..k -> S] : k \in 0..n}

\* Decoded session, user_profile, zones_target and record messages.
SessionLists ==
    { <<>>,
      << [start_time |-> DT(1), total_elapsed_time |-> Float(3600500),
          total_distance |-> Num(30000), avg_power |-> Num(210),
          avg_heart_rate |-> Num(150), total_work |-> Num(756)] >>,
      << [start_time |-> DT(1), total_elapsed_time |-> Num(3600)],
         [start_time |-> DT(2), total_elapsed_time |-> Num(0),
          avg_power |-> Num(180)] >>,
      << [avg_heart_rate |-> Num(150), avg_power |-> Str("abc")] >> }

ProfileLists == { <<>>, << [max_heart_rate |-> Num(190)] >> }

ZonesLists ==
    { <<>>,
      << [functional_threshold_power |-> Num(250)] >>,
      << [functional_threshold_power |-> Num(0)] >> }

RecordMessages ==
    { [timestamp |-> DT(100), power |-> Num(200), heart_rate |-> Num(150),
       cadence |-> Num(90)],
      [timestamp |-> DT(101), power |-> Num(0)],
      [power |-> Num(200), heart_rate |-> Num(150)],
      [timestamp |-> DT(102), power |-> Str("abc")] }

FitFiles ==
    [ corrupt : BOOLEAN, session : SessionLists, user_profile : ProfileLists,
      zones_target : ZonesLists, record : ListsOf(RecordMessages, MaxLen) ]

ParseFitCall ==
    /\ last.op = "init_db"
    /\ \E fit \in FitFiles :
         last' = [ op |-> "parse_fit_file", fit |-> fit,
                   ret |-> parse_fit_file(Path("/tmp", "tmpa1b2c3.fit"), fit) ]
    /\ UNCHANGED <<db, strava_id_column>>

InitFit ==
    /\ InitDb
    /\ last = [op |-> "init_db"]

NextFit == ParseFitCall

SpecFit == InitFit /\ [][NextFit]_vars

\* What get_activity answers: None (unavailable) or the summary dict.
IsoDate(n) == Fmt("%Y-%m-%dT%H:%M:%SZ", n)

Activities ==
    { None,
      <<>>,
      [id |-> Num(7), name |-> Str("Ride"), start_date |-> IsoDate(5),
       moving_time |-> Num(3000), elapsed_time |-> Num(3600),
       distance |-> Float(30000000), average_watts |-> Num(200),
       average_heartrate |-> Float(150500), kilojoules |-> Float(700000)],
      [id |-> Num(7), start_date |-> Str("yesterday")],
      [id |-> Num(7), start_date |-> IsoDate(5), elapsed_time |-> Num(3600),
       kilojoules |-> Float(700000)],
      [id |-> Num(7), start_date |-> IsoDate(5), moving_time |-> Num(3000),
       average_watts |-> Num(200)],
      [id |-> Num(7), start_date |-> Num(5)],
      [id |-> Num(7), name |-> Str("Ride")] }

\* What get_activity_streams answers: None, or a dict of channels.
TimeValues == {Num(0), Num(1), None, Str("abc"), Str("7")}

TimeChannels ==
    {List(xs) : xs \in ListsOf(TimeValues, MaxLen)}
      \cup {Wrapped(xs) : xs \in ListsOf({Num(0), Float(1500)}, MaxLen)}
      \cup {[t |-> "dict"]}

WattsChannels ==
    { List(<<Num(100), None, Num(120)>>), Wrapped(<<Str("abc")>>), List(<<>>) }

HeartrateChannels == { List(<<Num(150)>>) }

CadenceChannels == { Wrapped(<<Float(90500), Num(0), Str("7")>>) }

\* The dicts with key k bound to a value of S, or without the key
WithKey(k, S) == {<<>>} \cup {[x \in {k} |-> v] : v \in S}

StreamDicts ==
    { a @@ b @@ c @@ d :
        a \in WithKey("time", TimeChannels),
        b \in WithKey("watts", WattsChannels),
        c \in WithKey("heartrate", HeartrateChannels),
        d \in WithKey("cadence", CadenceChannels) }

Clock == {1000, 2000}

ParseStravaCall ==
    /\ last.op = "init_db"
    /\ \E activity \in Activities, streams \in {None} \cup StreamDicts,
          now \in Clock :
         last' = [ op |-> "parse_strava_activity", activity |-> activity,
                   streams |-> streams, now |-> now,
                   ret |-> parse_strava_activity(activity, streams, now) ]
    /\ UNCHANGED <<db, strava_id_column>>

InitStrava ==
    /\ InitDb
    /\ last = [op |-> "init_db"]

NextStrava == ParseStravaCall

SpecStrava == InitStrava /\ [][NextStrava]_vars

\* Both normalisers, each applied once to any of its inputs.
NextNormalizers == ParseFitCall \/ ParseStravaCall

SpecNormalizers == InitFit /\ [][NextNormalizers]_vars

----------------------------------------------------------------------------
(* data/validators.py: validate_file *)

\* A file name stem + ext, as os.path.splitext splits it
FileName(stem, ext) == [t |-> "str", stem |-> stem, ext |-> ext]

\* file_extension.lower()
Lower(ext) == IF ext = ".FIT" THEN ".fit" ELSE ext

SUPPORTED_EXTENSIONS == {".fit"}

\* The path of the NamedTemporaryFile the upload is written to
TempPath == Path("/tmp", "tmpa1b2c3.fit")

\* validate_file(uploaded_file): raises ValidationError for an extension
\* outside the supported set, else gives the temp path and the file name.
validate_file(uploaded_file) ==
    IF Lower(uploaded_file.name.ext) \notin SUPPORTED_EXTENSIONS
    THEN [raised |-> TRUE]
    ELSE [ raised |-> FALSE, temp_file_path |-> TempPath,
           original_filename |-> uploaded_file.name ]

----------------------------------------------------------------------------
(* data/validators.py: validate_workout_data, validate_data_points *)

\* An error message: which message, and the number formatted into it.
Err(kind, n) == [t |-> "str", kind |-> kind, n |-> n]

\* validate_workout_data(workout_data): the message for a missing or falsy
\* date, else None.
validate_workout_data(workout_data) ==
    IF ~Truthy(Get(workout_data, "date"))
    THEN Err("required_field_missing", 0)
    ELSE None

min_data_points == 10

\* for i, point in enumerate(data_points): if 'timestamp' not in point --
\* the index (from 0) of the first such point at or after position n, or -1.
RECURSIVE FirstWithoutTimestamp(_, _)
FirstWithoutTimestamp(points, n) ==
    IF n > Len(points) THEN -1
    ELSE IF "timestamp" \notin DOMAIN points[n] THEN n - 1
    ELSE FirstWithoutTimestamp(points, n + 1)

\* Mutant: the timestamp loop runs before the two length tests.
ValidateTimestampsFirst(points) ==
    IF FirstWithoutTimestamp(points, 1) # -1
    THEN Err("no_timestamp", FirstWithoutTimestamp(points, 1))
    ELSE IF points = <<>> THEN Err("no_data_points", 0)
    ELSE IF Len(points) < min_data_points
    THEN Err("too_few", Len(points))
    ELSE None

\* validate_data_points(points)
validate_data_points(points) ==
    LET has_power == \E i \in DOMAIN points :
                        "power" \in DOMAIN points[i]
        has_hr == \E i \in DOMAIN points :
                     "heart_rate" \in DOMAIN points[i]
    IN  IF points = <<>> THEN Err("no_data_points", 0)
        ELSE IF Len(points) < min_data_points
        THEN Err("too_few", Len(points))
        ELSE IF FirstWithoutTimestamp(points, 1) # -1
        THEN Err("no_timestamp", FirstWithoutTimestamp(points, 1))
        ELSE IF ~(has_power \/ has_hr) THEN Err("no_power_or_hr", 0)
        ELSE None

----------------------------------------------------------------------------
(* The validators called directly, with any input *)

MaxPoints == 11      \* length of a validated point list

\* The key sets and values a data point can have.
PointShapes ==
    { [timestamp |-> Num(1)],
      [timestamp |-> Num(1), power |-> Num(200)],
      [timestamp |-> Num(1), heart_rate |-> Num(150)],
      [timestamp |-> None, power |-> None],
      [cadence |-> Num(90)],
      [power |-> Num(200)] }

\* Lists of one shape, with the first or the last point of another shape.
ValidatedPointLists ==
    { [i \in 1..n |-> IF i = k THEN odd ELSE base] :
        base \in PointShapes, odd \in PointShapes,
        n \in 0..MaxPoints, k \in {1, MaxPoints - 1} }

ValidatedWorkouts ==
    StorageWorkouts \cup { [name |-> Str("a.fit")],
                           [date |-> Str(""), name |-> Str("a.fit")] }

ValidateDataPointsCall ==
    /\ last.op = "init_db"
    /\ \E points \in ValidatedPointLists :
         last' = [ op |-> "validate_data_points", data_points |-> points,
                   ret |-> validate_data_points(points) ]
    /\ UNCHANGED <<db, strava_id_column>>

ValidateWorkoutDataCall ==
    /\ last.op = "init_db"
    /\ \E workout_data \in ValidatedWorkouts :
         last' = [ op |-> "validate_workout_data",
                   workout_data |-> workout_data,
                   ret |-> validate_workout_data(workout_data) ]
    /\ UNCHANGED <<db, strava_id_column>>

InitValidate ==
    /\ InitDb
    /\ last = [op |-> "init_db"]

NextValidate == ValidateDataPointsCall \/ ValidateWorkoutDataCall

SpecValidate == InitValidate /\ [][NextValidate]_vars

----------------------------------------------------------------------------
(* app.py: the upload, import and list sections *)

\* d[key] = value
SetKey(d, key, value) ==
    [k \in DOMAIN d \cup {key} |-> IF k = key THEN value ELSE d[k]]

\* Mutant: the manual values are written whenever they are positive.
OverlayAlways(workout_data, ftp_value, max_hr_value) ==
    LET d1 == IF ftp_value > 0
              THEN SetKey(workout_data, "ftp", Num(ftp_value))
              ELSE workout_data
    IN  IF max_hr_value > 0
        THEN SetKey(d1, "max_hr", Num(max_hr_value))
        ELSE d1

\* if ftp_value > 0 and not workout_data.get('ftp'): workout_data['ftp'] =
\* ftp_value, and the same for max_hr
Overlay(workout_data, ftp_value, max_hr_value) ==
    LET d1 == IF ftp_value > 0 /\ ~Truthy(Get(workout_data, "ftp"))
              THEN SetKey(workout_data, "ftp", Num(ftp_value))
              ELSE workout_data
    IN  IF max_hr_value > 0 /\ ~Truthy(Get(d1, "max_hr"))
        THEN SetKey(d1, "max_hr", Num(max_hr_value))
        ELSE d1

\* Mutant: the upload section does not probe for the file name.
UploadProbeSkipped(original_filename) == FALSE

\* The dedup probe of the upload section
UploadProbe(original_filename) == check_workout_exists(original_filename)

\* The dedup probes of the import section: file_path = f"strava_{id}",
\* strava_id = int(id), either probe answering True stops the import.
ImportProbe(activity_id) ==
    \/ check_workout_exists(FStr("strava_", activity_id))
    \/ check_strava_activity_exists(PyInt(activity_id))

\* The files, manual values and clicks of the upload section.
UploadNames == {FileName("a", ".fit"), FileName("b", ".FIT"), FileName("c", ".gpx")}

UploadFits ==
    { [ corrupt |-> FALSE,
        session |-> << [start_time |-> DT(1), total_elapsed_time |-> Num(3600),
                        avg_power |-> Num(210)] >>,
        user_profile |-> << [max_heart_rate |-> Num(190)] >>,
        zones_target |-> << [functional_threshold_power |-> Num(250)] >>,
        record |-> << [timestamp |-> DT(100), power |-> Num(200)],
                      [power |-> Num(200)] >> ],
      [ corrupt |-> FALSE,
        session |-> << [start_time |-> DT(2), total_elapsed_time |-> Num(0)] >>,
        user_profile |-> <<>>,
        zones_target |-> << [functional_threshold_power |-> Num(0)] >>,
        record |-> << [timestamp |-> DT(100), heart_rate |-> Num(150)] >> ],
      [ corrupt |-> FALSE, session |-> <<>>, user_profile |-> <<>>,
        zones_target |-> <<>>,
        record |-> << [timestamp |-> DT(100), power |-> Num(200)] >> ] }

ManualValues == { <<0, 0>>, <<200, 185>> }

\* What a run of a section leaves behind: the outcome shown, the
\* normaliser's workout, the workout and the points handed to save and
\* save's answer.
Shown(op, key, manual, outcome, normalized, saved, ret, points) ==
    [ op |-> op, key |-> key, ftp_value |-> manual[1],
      max_hr_value |-> manual[2], outcome |-> outcome,
      normalized |-> normalized, saved |-> saved, ret |-> ret,
      points |-> points ]

\* workout_data['name'] = workout_data['file_path'] = original_filename,
\* after the manual overlay
UploadWorkout(workout_data, original_filename, manual) ==
    SetKey(SetKey(Overlay(workout_data, manual[1], manual[2]),
                  "name", original_filename),
           "file_path", original_filename)

\* One run of show_upload_section with an uploaded file, the two manual
\* values and the save button (click: "none", "save", or "commit" for a
\* click whose commit raises).
show_upload_section ==
    /\ UNCHANGED strava_id_column
    /\ \E name \in UploadNames, fit \in UploadFits, manual \in ManualValues,
          click \in {"none", "save", "commit"} :
        \E validated \in {validate_file([name |-> name, fit |-> fit])} :
          IF validated.raised
          THEN /\ UNCHANGED db
               /\ last' = Shown("show_upload_section", name, manual,
                                "validation_error", None, None, None, None)
          ELSE IF UploadProbe(validated.original_filename)
          THEN /\ UNCHANGED db
               /\ last' = Shown("show_upload_section", name, manual,
                                "duplicate", None, None, None, None)
          ELSE \E parsed \in {parse_fit_file(validated.temp_file_path, fit)} :
            IF parsed.raised
            THEN /\ UNCHANGED db
                 /\ last' = Shown("show_upload_section", name, manual,
                                  "error", None, None, None, None)
            ELSE \E workout_data \in
                      {UploadWorkout(parsed.workout_data,
                                     validated.original_filename, manual)} :
              IF Get(workout_data, "date") = None
              THEN /\ UNCHANGED db
                   /\ last' = Shown("show_upload_section", name, manual,
                                    "error", parsed.workout_data, None, None, None)
              ELSE IF click = "none"
              THEN /\ UNCHANGED db
                   /\ last' = Shown("show_upload_section", name, manual,
                                    "preview", parsed.workout_data, None, None, None)
              ELSE \E res \in {SaveResult(workout_data, parsed.data_points,
                                          IF click = "commit" THEN "commit"
                                          ELSE "none")} :
                   /\ sqlite_sequence.workouts < MaxWorkouts
                   /\ SetTables(res.tables)
                   /\ last' = Shown("show_upload_section", name, manual,
                                    IF Truthy(res.ret) THEN "saved"
                                    ELSE "save_failed",
                                    parsed.workout_data, workout_data, res.ret,
                                    List(parsed.data_points))

\* The activities offered for import and the service's answers for one.
ActivityIds == {Num(7)}

ActivityAnswer(id) ==
    [ id |-> id, name |-> Str("Ride"), start_date |-> IsoDate(5),
      moving_time |-> Num(3000), elapsed_time |-> Num(3600),
      average_watts |-> Num(200), kilojoules |-> Float(700000) ]

ServiceAnswers(id) ==
    { [activity |-> ActivityAnswer(id),
       streams |-> [time |-> List(<<Num(0), Num(1)>>),
                    watts |-> List(<<Num(100), None>>)]],
      [activity |-> ActivityAnswer(id),
       streams |-> [watts |-> List(<<Num(100), None>>)]],
      [activity |-> None,
       streams |-> [time |-> List(<<Num(0), Num(1)>>)]] }

\* A click on the import button of show_strava_section for the selected
\* activity, given the service's answers.
show_strava_section ==
    /\ UNCHANGED strava_id_column
    /\ \E id \in ActivityIds, manual \in ManualValues,
          fault \in StorageFaults :
        \E answer \in ServiceAnswers(id) :
          IF ImportProbe(id)
          THEN /\ UNCHANGED db
               /\ last' = Shown("show_strava_section", id, manual,
                                "duplicate", None, None, None, None)
          ELSE \E parsed \in {parse_strava_activity(answer.activity,
                                                    answer.streams, 1000)} :
            IF parsed.workout_data = None \/ parsed.data_points = List(<<>>)
            THEN /\ UNCHANGED db
                 /\ last' = Shown("show_strava_section", id, manual,
                                  "parse_failed", None, None, None, None)
            ELSE \E workout_data \in
                      {Overlay(parsed.workout_data, manual[1], manual[2])} :
                 \E res \in {SaveResult(workout_data,
                                        parsed.data_points.items, fault)} :
                   /\ sqlite_sequence.workouts < MaxWorkouts
                   /\ SetTables(res.tables)
                   /\ last' = Shown("show_strava_section", id, manual,
                                    IF Truthy(res.ret) THEN "saved"
                                    ELSE "save_failed",
                                    parsed.workout_data, workout_data, res.ret,
                                    parsed.data_points)

\* show_workouts_list: nothing but a notice when the listing is empty, else
\* the delete button deletes the workout whose id was entered.
show_workouts_list ==
    /\ UNCHANGED strava_id_column
    /\ \E workout_id \in 1..MaxWorkouts,
          click \in {"none", "delete", "commit"} :
        \E listed \in {get_all_workouts} :
          IF listed = <<>> \/ click = "none"
          THEN /\ UNCHANGED db
               /\ last' = [ op |-> "show_workouts_list",
                            outcome |-> IF listed = <<>> THEN "empty"
                                        ELSE "listed" ]
          ELSE \E res \in {DeleteResult(Num(workout_id),
                                        IF click = "commit" THEN "commit"
                                        ELSE "none")} :
               /\ SetTables(res.tables)
               /\ last' = [ op |-> "show_workouts_list",
                            workout_id |-> Num(workout_id),
                            outcome |-> IF res.ret THEN "deleted"
                                        ELSE "delete_failed" ]

Init ==
    /\ InitDb
    /\ last = [op |-> "init_db"]

Next ==
    \/ update_database_schema
    \/ show_upload_section
    \/ show_strava_section
    \/ show_workouts_list

Spec == Init /\ [][Next]_vars

----------------------------------------------------------------------------
(* Properties of the persistence layer (specification SpecStorage) *)

\* A timestamp the save can use: an int, a float or a numeral.
UsableTimestamp(point) ==
    /\ "timestamp" \in DOMAIN point
    /\ \/ point.timestamp.t \in {"int", "float"}
       \/ IsNumeral(point.timestamp)

IntegerTimestamp(point) ==
    "timestamp" \in DOMAIN point /\ point.timestamp.t = "int"

\* C1: save_workout_data is atomic. A save that returns None leaves the
\* workouts, data_points and intervals tables exactly as they were, also when
\* the exception came after the workout row and the points were inserted; a
\* save that returns an id has added one workout row and one data point row
\* for every point with a usable timestamp, the other points being skipped.
C1_SaveAtomic ==
    [][ last'.op = "save_workout_data" =>
          /\ last'.ret = None =>
                UNCHANGED <<workouts, data_points, intervals>>
          /\ last'.ret # None =>
                /\ workouts \subseteq workouts'
                /\ {r.id : r \in workouts' \ workouts} = {last'.ret.v}
                /\ data_points \subseteq data_points'
                /\ \A p \in data_points' \ data_points :
                      p.workout_id = last'.ret.v
                /\ Cardinality(data_points' \ data_points) =
                     Cardinality({i \in DOMAIN last'.data_points :
                                    UsableTimestamp(last'.data_points[i])})
      ]_vars

\* C1 witness: a save whose commit raised after a workout row and at least
\* one data point had been inserted, reported as None.
C1_Witness ==
    /\ last.op = "save_workout_data"
    /\ last.fault = "commit"
    /\ last.ret = None
    /\ strava_id_column
    /\ last.workout_data.date # None
    /\ \E i \in DOMAIN last.data_points : UsableTimestamp(last.data_points[i])
    /\ workouts # {}

\* Nothing refers to workout id: no workout row, data point or interval.
GoneIn(id, ws, ps, is) ==
    /\ \A r \in ws : r.id # id
    /\ \A p \in ps : p.workout_id # id
    /\ \A i \in is : i.workout_id # id

Gone(id) == GoneIn(id, workouts, data_points, intervals)

\* After delete_workout(id) returned True the listing has no row with id.
DeletedNotListed ==
    (last.op = "delete_workout" /\ last.ret = TRUE) =>
        \A i \in DOMAIN get_all_workouts :
            get_all_workouts[i].id # last.workout_id.v

\* C2: after delete_workout(id) returns True the listing has no workout id,
\* no data point and no interval refers to id, the rows of other workouts
\* are unchanged, and this stays so whatever saves and deletes follow.
C2_DeleteCascades ==
    /\ []DeletedNotListed
    /\ [][ /\ (last'.op = "delete_workout" /\ last'.ret = TRUE) =>
                LET id == last'.workout_id.v
                IN  /\ GoneIn(id, workouts', data_points', intervals')
                    /\ workouts' = {r \in workouts : r.id # id}
                    /\ data_points' = {p \in data_points : p.workout_id # id}
                    /\ intervals' = {i \in intervals : i.workout_id # id}
           /\ \A id \in 1..sqlite_sequence.workouts : Gone(id) => Gone(id)'
         ]_vars

\* C2 witness: workout 1 of two was deleted with its interval and its data
\* points, and workout 2 is still stored with its data points.
C2_Witness ==
    /\ last.op = "delete_workout"
    /\ last.ret = TRUE
    /\ last.workout_id = Num(1)
    /\ {r.id : r \in workouts} = {2}
    /\ sqlite_sequence.intervals = 2
    /\ {i.workout_id : i \in intervals} = {2}
    /\ \E p \in data_points : p.workout_id = 2
    /\ sqlite_sequence.data_points > Cardinality(data_points)

\* C4 (as claimed): a save of a dated workout whose N points all carry an
\* integer timestamp returns an id, the listing then has a row with that id
\* and the saved source key, and N data point rows refer to the id.
C4_SaveThenList ==
    ( /\ last.op = "save_workout_data"
      /\ last.fault = "none"
      /\ strava_id_column
      /\ last.workout_data.date # None
      /\ \A i \in DOMAIN last.data_points :
            IntegerTimestamp(last.data_points[i]) )
    => /\ last.ret # None
       /\ \E i \in DOMAIN get_all_workouts :
             /\ get_all_workouts[i].id = last.ret.v
             /\ "file_path" \in DOMAIN get_all_workouts[i]
             /\ get_all_workouts[i].file_path = last.workout_data.file_path
       /\ Cardinality({p \in data_points : p.workout_id = last.ret.v})
            = Len(last.data_points)

\* C12 (as claimed): a save in which every data point lacks a usable
\* timestamp returns None; no workout id is returned for a workout all of
\* whose points were dropped.
C12_AllPointsDroppedFails ==
    ( /\ last.op = "save_workout_data"
      /\ last.data_points # <<>>
      /\ \A i \in DOMAIN last.data_points :
            ~UsableTimestamp(last.data_points[i]) )
    => last.ret = None

\* C13 (as claimed): every stored workout row has a non-null date and a
\* non-null file_path; a save of a workout without a date or without a
\* file_path adds no row.
C13_DateAndSourceKeyRequired ==
    /\ \A w \in workouts : w.date # None /\ w.file_path # None
    /\ ( /\ last.op = "save_workout_data"
         /\ \/ Get(last.workout_data, "date") = None
            \/ Get(last.workout_data, "file_path") = None )
       => last.ret = None

\* The data points and intervals of workout id in the given tables.
RowsOf(id, ps, is) ==
    [ data_points |-> {p \in ps : p.workout_id = id},
      intervals |-> {i \in is : i.workout_id = id} ]

\* C14: when one of the three DELETE statements of delete_workout (or its
\* commit) raises, the call returns False and workouts, data_points and
\* intervals are as before the call; no delete, failed or not, leaves a
\* workout row without the data points and intervals it had.
C14_DeleteAllOrNothing ==
    [][ last'.op = "delete_workout" =>
          /\ last'.fault # "none" =>
                /\ last'.ret = FALSE
                /\ UNCHANGED <<workouts, data_points, intervals>>
          /\ \A r \in workouts' :
                RowsOf(r.id, data_points', intervals') =
                  RowsOf(r.id, data_points, intervals)
      ]_vars

\* C14 witness: the DELETE on workouts raised after the data points and the
\* interval of workout 1 had been deleted in the transaction; the call
\* returned False and workout 1 still has its data points and its interval.
C14_Witness ==
    /\ last.op = "delete_workout"
    /\ last.fault = "delete_workouts"
    /\ last.ret = FALSE
    /\ last.workout_id = Num(1)
    /\ \E r \in workouts : r.id = 1
    /\ RowsOf(1, data_points, intervals).data_points # {}
    /\ RowsOf(1, data_points, intervals).intervals # {}

\* C15: get_all_workouts returns every stored workout exactly once, and
\* of two adjacent rows of the result the first has the later or the same
\* date.
C15_ListedOnceByDateDesc ==
    last.op = "get_all_workouts" =>
        /\ Len(last.ret) = Cardinality(workouts)
        /\ {last.ret[i].id : i \in DOMAIN last.ret} = {r.id : r \in workouts}
        /\ \A i \in DOMAIN last.ret :
              \E r \in workouts : last.ret[i] = ListedRow(r)
        /\ \A i \in 1..(Len(last.ret) - 1) :
              DateKey(last.ret[i].date) >= DateKey(last.ret[i + 1].date)

\* C15 witness: the workout saved second has the later date and is listed
\* first.
C15_Witness ==
    /\ last.op = "get_all_workouts"
    /\ Len(last.ret) = 2
    /\ last.ret[1].id = 2
    /\ last.ret[2].id = 1
    /\ DateKey(last.ret[1].date) > DateKey(last.ret[2].date)

\* C19 (as claimed): on every exit path, the failure to open the
\* connection included, each public storage operation leaves no connection
\* open and returns its documented result instead of raising.
C19_ClosedAndReturns ==
    last.op = "storage_exit" =>
        /\ last.exit.open = 0
        /\ ~last.exit.raised

\* What is stored for one field of a point: int() of the value, NULL when
\* the key is missing, the value is None or int() refuses it.
StoredField(point, field) ==
    IF /\ field \in DOMAIN point
       /\ \/ point[field].t \in {"int", "float"}
          \/ IsNumeral(point[field])
    THEN PyInt(point[field])
    ELSE None

\* C24: in a save that returns an id, a point whose timestamp is missing or
\* cannot be converted to an integer is skipped without ending the batch:
\* the data_points rows of the new workout are exactly the input points with
\* a convertible timestamp, in input order (row ids increase with the
\* position in the input), each naming the new workout id, and a power,
\* heart_rate or cadence that cannot be converted is NULL in that row only.
C24_BadPointsSkippedOthersStored ==
    (last.op = "save_workout_data" /\ last.ret # None) =>
        LET kept == SelectSeq(last.data_points, UsableTimestamp)
            rows == {p \in data_points : p.workout_id = last.ret.v}
        IN  /\ Cardinality(rows) = Len(kept)
            /\ \E ids \in [DOMAIN kept -> {p.id : p \in rows}] :
                 /\ \A j, k \in DOMAIN kept : j < k => ids[j] < ids[k]
                 /\ \A k \in DOMAIN kept :
                      \E p \in rows :
                        /\ p.id = ids[k]
                        /\ p.timestamp # None
                        /\ \A f \in {"timestamp", "power", "heart_rate",
                                     "cadence"} :
                              p[f] = StoredField(kept[k], f)

\* C24 witness: a save of three points, the second with a timestamp int()
\* refuses, has stored the first and the third, the first with its
\* non-numeric cadence as NULL and its power and heart rate kept.
C24_Witness ==
    /\ last.op = "save_workout_data"
    /\ last.ret # None
    /\ last.data_points = <<PointA, PointBadTs, PointB>>
    /\ \E p, q \in data_points :
         /\ p.workout_id = last.ret.v /\ q.workout_id = last.ret.v
         /\ p.id < q.id
         /\ p.timestamp = Num(10) /\ p.cadence = None
         /\ p.power = Num(200) /\ p.heart_rate = Num(150)
         /\ q.timestamp = Num(11)
    /\ Cardinality({p \in data_points : p.workout_id = last.ret.v}) = 2

\* C25 (as claimed): the schema made by init_db has the strava_id column of
\* workouts, so on a database that init_db alone has prepared a save of a
\* dated workout with a source key, met by no fault, returns an id.
C25_InitDbSchemaSuffices ==
    ( /\ last.op = "save_workout_data"
      /\ ~strava_id_column
      /\ last.fault = "none"
      /\ Get(last.workout_data, "date") # None
      /\ Get(last.workout_data, "file_path") # None )
    => /\ last.ret # None
       /\ \E w \in workouts : w.id = last.ret.v

\* The largest workout id handed out so far is the table's AUTOINCREMENT
\* mark: no stored workout has a larger id, and the id returned by the save
\* just made is the mark.
MarkCoversIds ==
    /\ \A w \in workouts : w.id <= sqlite_sequence.workouts
    /\ (last.op = "save_workout_data" /\ last.ret # None) =>
          last.ret.v <= sqlite_sequence.workouts

\* C26: workout ids are given at save time and never given twice. In every
\* step the mark of ids handed out does not go down, a delete included, and
\* a save that returns an id returns one above the mark, hence above every
\* id returned before, whether or not those workouts are still stored.
C26_IdsNeverReused ==
    /\ []MarkCoversIds
    /\ [][ /\ sqlite_sequence'.workouts >= sqlite_sequence.workouts
           /\ ( /\ last' # last
                /\ last'.op = "save_workout_data"
                /\ last'.ret # None )
              => /\ last'.ret.v > sqlite_sequence.workouts
                 /\ \A w \in workouts : last'.ret.v > w.id
                 /\ \E w \in workouts' : w.id = last'.ret.v ]_vars

\* C26 witness: the second save returns id 2 after the workout saved first
\* has been deleted, so that workout 2 is the only one stored.
C26_Witness ==
    /\ last.op = "save_workout_data"
    /\ last.ret = Num(2)
    /\ {w.id : w \in workouts} = {2}

\* C27: a delete_workout whose statements all run, called with an id no
\* stored workout has, returns True and leaves workouts, data_points and
\* intervals as they were; called with a stored id it returns True as well,
\* so the answer does not tell whether a workout was removed.
C27_DeleteOfAbsentIdSucceeds ==
    [][ (last'.op = "delete_workout" /\ last'.fault = "none") =>
          /\ last'.ret = TRUE
          /\ (\A w \in workouts : Num(w.id) # last'.workout_id) =>
                UNCHANGED <<workouts, data_points, intervals>>
          /\ (\E w \in workouts : Num(w.id) = last'.workout_id) =>
                workouts' # workouts ]_vars

\* C27 witness: delete_workout(2) has returned True while only id 1 was
\* ever given out and workout 1 is still stored.
C27_Witness ==
    /\ last.op = "delete_workout"
    /\ last.fault = "none"
    /\ last.workout_id = Num(2)
    /\ last.ret = TRUE
    /\ sqlite_sequence.workouts = 1
    /\ {w.id : w \in workouts} = {1}
    /\ data_points # {}

----------------------------------------------------------------------------
(* Properties of the upload and import sections (specification Spec) *)

\* No two stored workouts share a source key or a non-null external id.
NoDuplicateSources ==
    \A w1, w2 \in workouts :
        w1.id # w2.id =>
            /\ w1.file_path # w2.file_path
            /\ w1.strava_id # None => w1.strava_id # w2.strava_id

\* The section called save in the step just taken.
CalledSave(l) ==
    /\ l.op \in {"show_upload_section", "show_strava_section"}
    /\ l.outcome \in {"saved", "save_failed"}

\* C3: after any sequence of upload and import runs no two stored workouts
\* share a source key or a non-null external id; an upload calls save only
\* when check_workout_exists(file name) answered False, an import only when
\* check_workout_exists(source key) and check_strava_activity_exists(id)
\* both answered False.
C3_DedupBeforeSave ==
    [][ /\ NoDuplicateSources'
        /\ CalledSave(last') =>
              /\ ~check_workout_exists(last'.saved.file_path)
              /\ last'.op = "show_strava_section" =>
                    /\ last'.saved.file_path = FStr("strava_", last'.key)
                    /\ ~check_strava_activity_exists(last'.saved.strava_id) ]_vars

\* C3 witness: with an uploaded file and an imported activity both stored,
\* a further import of the same activity is stopped as a duplicate.
C3_Witness ==
    /\ last.op = "show_strava_section"
    /\ last.outcome = "duplicate"
    /\ \E w1, w2 \in workouts :
         /\ w1.file_path = FileName("a", ".fit")
         /\ w2.file_path = FStr("strava_", Num(7))
         /\ w2.strava_id = Num(7)

\* The manual value entered for a field.
ManualValue(l, field) == IF field = "ftp" THEN l.ftp_value ELSE l.max_hr_value

\* C5: in both sections the workout handed to save carries the normaliser's
\* ftp (max_hr) whenever the normaliser produced one, whatever the manual
\* value; the manual value is carried only when the normaliser left the
\* field unset and the manual value is greater than 0.
C5_OverlayKeepsNormalized ==
    CalledSave(last) =>
        \A field \in {"ftp", "max_hr"} :
            LET normalized == Get(last.normalized, field)
                saved == Get(last.saved, field)
            IN  /\ normalized # None => saved = normalized
                /\ normalized = None =>
                      saved = IF ManualValue(last, field) > 0
                              THEN Num(ManualValue(last, field))
                              ELSE None

\* C5 witness: a file carrying ftp 250 and max_hr 190 is saved with manual
\* values 200 and 185 entered, and the stored row has 250 and 190; the same
\* manual values reach the row of an imported activity.
C5_Witness ==
    /\ last.op = "show_upload_section"
    /\ last.outcome = "saved"
    /\ last.ftp_value = 200
    /\ last.max_hr_value = 185
    /\ Get(last.normalized, "ftp") = Num(250)
    /\ \E w \in workouts :
         /\ Num(w.id) = last.ret
         /\ w.ftp = Num(250)
         /\ w.max_hr = Num(190)
    /\ \E w \in workouts :
         /\ w.strava_id = Num(7)
         /\ w.ftp = Num(200)

\* C18 (as claimed): a section calls save only with a workout that
\* validate_workout_data accepts and points that validate_data_points
\* accepts.
C18_ValidatedBeforeSave ==
    CalledSave(last) =>
        /\ validate_workout_data(last.saved) = None
        /\ validate_data_points(last.points.items) = None

\* file_path = f"strava_{activity_id}" and strava_id = int(activity_id): the
\* arguments the import section hands to the two probes.
ImportSourceKey(activity_id) == FStr("strava_", activity_id)
ImportExternalId(activity_id) == PyInt(activity_id)

\* The stored workouts that came from the import of one activity.
ImportedRows(activity_id) ==
    { r \in workouts : /\ r.source = Str("strava")
                       /\ r.strava_id = ImportExternalId(activity_id) }

\* What the normaliser and the store hold for an imported activity: the
\* workout handed to save has the activity id as strava_id and the probed
\* key as file_path, and while a row of the activity is stored both probes
\* answer True for it.
ImportedFoundByBothProbes ==
    /\ (last.op = "show_strava_section" /\ CalledSave(last)) =>
          /\ last.normalized.strava_id = last.key
          /\ last.normalized.file_path = ImportSourceKey(last.key)
          /\ last.saved.strava_id = last.normalized.strava_id
          /\ last.saved.file_path = last.normalized.file_path
    /\ (last.op = "show_strava_section" /\ last.outcome = "saved") =>
          ImportedRows(last.key) # {}
    /\ \A id \in ActivityIds :
          ImportedRows(id) # {} =>
              /\ \A r \in ImportedRows(id) : r.file_path = ImportSourceKey(id)
              /\ check_workout_exists(ImportSourceKey(id))
              /\ check_strava_activity_exists(ImportExternalId(id))

\* C23: for an imported workout the normaliser sets strava_id to the
\* activity id and file_path to the fixed prefix followed by that id, the
\* same key and id the import section probes with; once activity X is
\* stored, both probes answer True for X and a later import of X is stopped
\* as a duplicate without touching the tables.
C23_ImportedFoundLater ==
    /\ []ImportedFoundByBothProbes
    /\ [][ \A id \in ActivityIds :
             ( /\ ImportedRows(id) # {}
               /\ last'.op = "show_strava_section"
               /\ last'.key = id )
             => /\ last'.outcome = "duplicate"
                /\ UNCHANGED db ]_vars

\* C23 witness: a later import of a stored activity, found by the
\* source-key probe and by the external-id probe.
C23_Witness ==
    /\ last.op = "show_strava_section"
    /\ last.outcome = "duplicate"
    /\ ImportedRows(last.key) # {}
    /\ check_workout_exists(ImportSourceKey(last.key))
    /\ check_strava_activity_exists(ImportExternalId(last.key))

----------------------------------------------------------------------------
(* Properties of the validators (specification SpecValidate) *)

\* Some point of the list has the key.
AnyPointHas(points, key) ==
    \E i \in DOMAIN points : key \in DOMAIN points[i]

\* C11: validate_data_points returns a message exactly when the list is
\* empty, or has fewer than 10 points, or some point lacks the timestamp
\* key, or no point has power and no point has heart_rate, and None in every
\* other case; the tests apply in that order, so the empty list gets the
\* no-data-points message and a short list the below-minimum message
\* whatever its points hold.
C11_ValidateDataPoints ==
    last.op = "validate_data_points" =>
        LET points == last.data_points
            empty == Len(points) = 0
            few == Len(points) < 10
            untimed == \E i \in DOMAIN points :
                          "timestamp" \notin DOMAIN points[i]
            unmeasured == /\ ~AnyPointHas(points, "power")
                          /\ ~AnyPointHas(points, "heart_rate")
        IN  /\ last.ret = None <=> ~(empty \/ few \/ untimed \/ unmeasured)
            /\ empty => last.ret.kind = "no_data_points"
            /\ (~empty /\ few) => last.ret.kind = "too_few"
            /\ (~few /\ untimed) => last.ret.kind = "no_timestamp"
            /\ (~few /\ ~untimed /\ unmeasured) =>
                  last.ret.kind = "no_power_or_hr"

\* C11 witness: five timestamp-only points get the below-minimum message.
C11_Witness ==
    /\ last.op = "validate_data_points"
    /\ Len(last.data_points) = 5
    /\ \A i \in 1..5 : DOMAIN last.data_points[i] = {"timestamp"}
    /\ last.ret = Err("too_few", 5)

----------------------------------------------------------------------------
(* Properties of the file normaliser (specification SpecFit) *)

HasTimestamp(record) ==
    "timestamp" \in DOMAIN record /\ record.timestamp # None

\* C6: every data point the file normaliser returns has an integer
\* timestamp, a record without a timestamp gives no data point, and the
\* points returned are the timestamped records in file order.
C6_FitPointsTimestamped ==
    (last.op = "parse_fit_file" /\ ~last.ret.raised) =>
        LET points == last.ret.data_points
            timed == SelectSeq(last.fit.record, HasTimestamp)
        IN  /\ \A i \in DOMAIN points :
                  /\ "timestamp" \in DOMAIN points[i]
                  /\ points[i].timestamp.t = "int"
            /\ Len(points) = Len(timed)
            /\ \A i \in DOMAIN points :
                  points[i].timestamp.v = timed[i].timestamp.sec

\* C6 witness: a file whose first record has no timestamp and whose second
\* has one; the parse gives the one point of the second record.
C6_Witness ==
    /\ last.op = "parse_fit_file"
    /\ ~last.ret.raised
    /\ Len(last.fit.record) = 2
    /\ ~HasTimestamp(last.fit.record[1])
    /\ HasTimestamp(last.fit.record[2])
    /\ Len(last.ret.data_points) = 1

\* Some record with a timestamp has a power, heart_rate or cadence that
\* int() refuses.
BadRecordValue(fit) ==
    \E i \in DOMAIN fit.record :
        /\ HasTimestamp(fit.record[i])
        /\ \E k \in {"power", "heart_rate", "cadence"} \cap DOMAIN fit.record[i] :
              /\ Truthy(fit.record[i][k])
              /\ PyInt(fit.record[i][k]) = Raise

\* Some session message has a value that int() or float() refuses.
BadSessionValue(fit) ==
    \E i \in DOMAIN fit.session :
        \E k \in {"avg_power", "avg_heart_rate", "total_elapsed_time"}
                   \cap DOMAIN fit.session[i] :
            /\ Truthy(fit.session[i][k])
            /\ PyInt(fit.session[i][k]) = Raise

\* C16: when the decoder raises, or reading the session, profile or record
\* messages raises, parse_fit_file raises a parse error that carries the
\* message of the original exception, and the caller gets neither a workout
\* nor a point list; a result that is returned has a point for every
\* timestamped record.
C16_FitFailureRaises ==
    last.op = "parse_fit_file" =>
        /\ (last.fit.corrupt \/ BadSessionValue(last.fit)
               \/ BadRecordValue(last.fit)) => last.ret.raised
        /\ last.ret.raised =>
              /\ DOMAIN last.ret = {"raised", "error"}
              /\ last.ret.error.of = FitFailure(Path("/tmp", "tmpa1b2c3.fit"),
                                                last.fit)
              /\ last.ret.error.of # None
        /\ ~last.ret.raised =>
              Len(last.ret.data_points) =
                Len(SelectSeq(last.fit.record, HasTimestamp))

\* C16 witness: the second record message of a readable file has a power
\* that int() refuses; the parse raises with the message of that failure
\* and the point of the first record is not handed out.
C16_Witness ==
    /\ last.op = "parse_fit_file"
    /\ ~last.fit.corrupt
    /\ Len(last.fit.record) = 2
    /\ HasTimestamp(last.fit.record[1])
    /\ FitPoint(last.fit.record[1]) # Raise
    /\ FitPoint(last.fit.record[2]) = Raise
    /\ last.ret.raised
    /\ last.ret.error = FStr("ValueError: ", Str("_extract_data_points"))

\* C20 (as claimed): in a readable file whose session messages convert, a
\* record whose power, heart_rate or cadence int() refuses still gives its
\* data point, and the parse succeeds with a point for every timestamped
\* record.
C20_BadSubfieldDropped ==
    ( /\ last.op = "parse_fit_file"
      /\ ~last.fit.corrupt
      /\ extract_workout_info(Path("/tmp", "tmpa1b2c3.fit"), last.fit) # Raise
      /\ BadRecordValue(last.fit) )
    => /\ ~last.ret.raised
       /\ Len(last.ret.data_points) =
            Len(SelectSeq(last.fit.record, HasTimestamp))

----------------------------------------------------------------------------
(* Properties of the remote normaliser (specification SpecStrava) *)

\* A channel entry int() cannot convert: null or a non-numeric string.
NotANumber(x) == x = None \/ (x.t = "str" /\ ~IsNumeral(x))

\* Both fetches answered and the summary maps without an exception.
Fetched ==
    /\ last.op = "parse_strava_activity"
    /\ ~Falsy(last.activity)
    /\ extract_workout_data(last.activity, last.now) # Raise
    /\ last.streams # None

TimeChannel == Channel(last.streams, "time")

\* C7 (as claimed): for every content of the elapsed-time channel and of the
\* other channels, the number of points returned is the channel's length.
C7_LengthForEveryContent ==
    (Fetched /\ ~Falsy(last.streams)) =>
        /\ last.ret.data_points # None
        /\ Len(last.ret.data_points.items) = Len(TimeChannel)

\* C7 (amended): whenever a point list is returned its length is the length
\* of the elapsed-time channel, whatever the other channels hold; a list is
\* returned when every entry of the elapsed-time channel is a number, and an
\* entry that is null or not numeric makes the result (None, None).
C7_LengthWhenReturned ==
    (last.op = "parse_strava_activity") =>
        /\ last.ret.data_points # None =>
              Len(last.ret.data_points.items) = Len(TimeChannel)
        /\ (Fetched /\ ~Falsy(last.streams)) =>
              ( last.ret.data_points = None
                  <=> \E i \in DOMAIN TimeChannel : NotANumber(TimeChannel[i]) )

\* C7 witness: two points from a two-entry time channel, with a null in the
\* power channel and a heart-rate channel of one entry.
C7_Witness ==
    /\ Fetched
    /\ last.ret.data_points # None
    /\ Len(last.ret.data_points.items) = 2
    /\ Len(Channel(last.streams, "watts")) >= 2
    /\ Channel(last.streams, "watts")[2] = None
    /\ Len(Channel(last.streams, "heartrate")) = 1

\* C8 (as claimed): with the summary fetched and an empty or missing
\* elapsed-time channel, the result is an empty list and a workout.
C8_EmptyTimeChannel ==
    (Fetched /\ TimeChannel = <<>>) =>
        /\ last.ret.data_points = List(<<>>)
        /\ last.ret.workout_data # None

\* C8 (amended): as claimed, for a streams answer that has at least one
\* channel key; a streams answer without any key is taken as unavailable.
C8_EmptyTimeChannelOfNonEmptyAnswer ==
    (Fetched /\ TimeChannel = <<>>) =>
        IF DOMAIN last.streams # {}
        THEN /\ last.ret.data_points = List(<<>>)
             /\ last.ret.workout_data # None
        ELSE /\ last.ret.data_points = None
             /\ last.ret.workout_data = None

\* C8 witness: a streams answer with a power channel and no time channel
\* gave no points and a workout.
C8_Witness ==
    /\ Fetched
    /\ "time" \notin DOMAIN last.streams
    /\ "watts" \in DOMAIN last.streams
    /\ last.ret.data_points = List(<<>>)
    /\ last.ret.workout_data # None

\* C9 (as claimed): a summary that reports kilojoules gives work_kj equal to
\* the reported value, also when a derived value can be computed.
C9_ReportedEnergyWins ==
    ( /\ Fetched
      /\ last.ret.workout_data # None
      /\ "kilojoules" \in DOMAIN last.activity
      /\ last.activity.kilojoules # None )
    => last.ret.workout_data.work_kj = last.activity.kilojoules

\* C10 (as claimed): a summary without elapsed_time or distance gives a
\* workout whose total_time or total_distance is unset.
C10_AbsentStaysUnset ==
    (Fetched /\ last.ret.workout_data # None) =>
        /\ "elapsed_time" \notin DOMAIN last.activity =>
              last.ret.workout_data.total_time = None
        /\ "distance" \notin DOMAIN last.activity =>
              last.ret.workout_data.total_distance = None

\* C17: parse_strava_activity always returns a pair; the pair is (None,
\* None) when the summary or the streams are unavailable or the mapping
\* raises, and in every pair the workout is None exactly when the points
\* are None.
C17_PairNeverRaises ==
    last.op = "parse_strava_activity" =>
        /\ DOMAIN last.ret = {"workout_data", "data_points"}
        /\ last.ret.workout_data = None <=> last.ret.data_points = None
        /\ ( \/ Falsy(last.activity)
             \/ Falsy(last.streams)
             \/ extract_workout_data(last.activity, last.now) = Raise
             \/ \E i \in DOMAIN TimeChannel : NotANumber(TimeChannel[i]) )
           => last.ret = [workout_data |-> None, data_points |-> None]
        /\ last.ret.data_points # None => last.ret.data_points.t = "list"

\* C17 witness: both fetches answered and the summary maps, and an entry of
\* the time channel that int() refuses makes the result (None, None).
C17_Witness ==
    /\ Fetched
    /\ ~Falsy(last.streams)
    /\ \E i \in DOMAIN TimeChannel : TimeChannel[i] = Str("abc")
    /\ last.ret = [workout_data |-> None, data_points |-> None]

\* The optional fields of a point and the channel each is read from.
ChannelOfField ==
    [heart_rate |-> "heartrate", power |-> "watts", cadence |-> "cadence"]

\* Channel f has an entry at index i that is not null and that int() accepts.
HasIntegerAt(stream, i) ==
    /\ i \in DOMAIN stream
    /\ ~NotANumber(stream[i])

\* C21: in a returned point list the heart-rate, power and cadence channels
\* are aligned with the elapsed-time channel by index: point i has field f
\* exactly when channel f has an entry at index i that is not null and can
\* be converted to an integer, and the field is then that integer; a
\* shorter channel, a null or a non-numeric entry leaves out that field of
\* that point only.
C21_ChannelsAlignedByIndex ==
    (last.op = "parse_strava_activity" /\ last.ret.data_points # None) =>
        \A i \in DOMAIN last.ret.data_points.items :
            LET point == last.ret.data_points.items[i]
            IN  /\ DOMAIN point \subseteq
                      {"timestamp"} \cup DOMAIN ChannelOfField
                /\ \A f \in DOMAIN ChannelOfField :
                      LET stream == Channel(last.streams, ChannelOfField[f])
                      IN  /\ f \in DOMAIN point <=> HasIntegerAt(stream, i)
                          /\ f \in DOMAIN point =>
                                /\ point[f].t = "int"
                                /\ point[f] = PyInt(stream[i])

\* C21 witness: two points from a power channel [100, null, 120], a
\* heart-rate channel of one entry and a cadence channel [90.5, 0, "7"]:
\* the first point has all three fields, the second only cadence 0.
C21_Witness ==
    /\ last.op = "parse_strava_activity"
    /\ last.ret.data_points # None
    /\ Channel(last.streams, "watts") = <<Num(100), None, Num(120)>>
    /\ Len(Channel(last.streams, "heartrate")) = 1
    /\ Len(last.ret.data_points.items) = 2
    /\ DOMAIN last.ret.data_points.items[1] =
          {"timestamp", "heart_rate", "power", "cadence"}
    /\ last.ret.data_points.items[1].power = Num(100)
    /\ last.ret.data_points.items[1].heart_rate = Num(150)
    /\ last.ret.data_points.items[1].cadence = Num(90)
    /\ DOMAIN last.ret.data_points.items[2] = {"timestamp", "cadence"}
    /\ last.ret.data_points.items[2].cadence = Num(0)

\* An elapsed-time entry in thousandths of a second, as it stands in the
\* channel before int() is applied.
OffsetMilli(x) ==
    CASE x.t = "int" -> x.v * 1000
      [] x.t = "float" -> x.milli
      [] OTHER -> Numerals[x.s] * 1000

\* The timestamps of the points returned, [] when no list is returned.
Timestamps(ret) ==
    IF ret.data_points = None THEN <<>>
    ELSE [i \in DOMAIN ret.data_points.items |->
            ret.data_points.items[i].timestamp.v]

\* The same activity and streams normalised at another capture time.
AtCaptureTime(now) ==
    parse_strava_activity(last.activity, last.streams, now)

\* C22 (as claimed): the timestamp of point i is the captured time plus the
\* i-th elapsed-time offset, so the difference of two timestamps of one
\* result is the difference of their offsets.
C22_TimestampIsClockPlusOffset ==
    (last.op = "parse_strava_activity" /\ last.ret.data_points # None) =>
        LET ts == Timestamps(last.ret)
        IN  /\ \A i \in DOMAIN ts :
                  ts[i] * 1000 = last.now * 1000 + OffsetMilli(TimeChannel[i])
            /\ \A i, j \in DOMAIN ts :
                  (ts[j] - ts[i]) * 1000 =
                      OffsetMilli(TimeChannel[j]) - OffsetMilli(TimeChannel[i])

\* C22 (amended): the clock is read once per normalisation and the
\* timestamp of point i is that time plus int() of the i-th elapsed-time
\* offset, i.e. the offset cut to whole seconds; within one result the
\* difference of two timestamps is the difference of the cut offsets, and
\* the same streams normalised at another capture time give the same number
\* of points, every timestamp moved by the difference of the capture times.
C22_TimestampIsClockPlusIntOffset ==
    (last.op = "parse_strava_activity" /\ last.ret.data_points # None) =>
        LET ts == Timestamps(last.ret)
        IN  /\ \A i \in DOMAIN ts :
                  ts[i] = last.now + PyInt(TimeChannel[i]).v
            /\ \A i, j \in DOMAIN ts :
                  ts[j] - ts[i] =
                      PyInt(TimeChannel[j]).v - PyInt(TimeChannel[i]).v
            /\ \A other \in Clock \ {last.now} :
                  LET ts2 == Timestamps(AtCaptureTime(other))
                  IN  /\ AtCaptureTime(other).data_points # None
                      /\ DOMAIN ts2 = DOMAIN ts
                      /\ \A i \in DOMAIN ts :
                            /\ ts2[i] # ts[i]
                            /\ ts2[i] - ts[i] = other - last.now
                      /\ \A i, j \in DOMAIN ts :
                            ts2[j] - ts2[i] = ts[j] - ts[i]

\* C22 witness: offsets [0, 1.5] captured at time t give the timestamps t
\* and t + 1.
C22_Witness ==
    /\ last.op = "parse_strava_activity"
    /\ last.ret.data_points # None
    /\ TimeChannel = <<Num(0), Float(1500)>>
    /\ Timestamps(last.ret) = <<last.now, last.now + 1>>
    /\ Timestamps(AtCaptureTime(2000)) # Timestamps(AtCaptureTime(1000))

----------------------------------------------------------------------------
(* Properties of the two normalisers (specification SpecNormalizers) *)

\* The workout fields read from a session message and the FIT field of each.
SessionField ==
    [ total_time |-> "total_elapsed_time", total_distance |-> "total_distance",
      avg_power |-> "avg_power", avg_hr |-> "avg_heart_rate",
      work_kj |-> "total_work" ]

\* A raw value that is there and is not 0.
Nonzero(x) == x # None /\ x # Num(0) /\ x # Float(0)

\* The raw values of timestamped records laid out as the channels of a
\* streams answer, one index per record.
SameRawStreams(records) ==
    [ time |-> List([i \in DOMAIN records |-> Num(i - 1)]),
      heartrate |-> List([i \in DOMAIN records |->
                            Get(records[i], "heart_rate")]),
      watts |-> List([i \in DOMAIN records |-> Get(records[i], "power")]),
      cadence |-> List([i \in DOMAIN records |-> Get(records[i], "cadence")]) ]

\* C28: the two normalisers differ on a raw 0. In a result of the file
\* normaliser a point has power, heart_rate or cadence exactly when the
\* record's raw value is there and is not 0, and a session field is unset
\* exactly when no session message has a raw value for it other than 0; the
\* remote normaliser, given the same raw values as channels, has the field
\* with value 0 where the raw value is 0, and every 0 of a channel is the
\* value 0 of its point.
C28_ZeroOmittedByFileKeptByRemote ==
    /\ (last.op = "parse_fit_file" /\ ~last.ret.raised) =>
          LET timed == SelectSeq(last.fit.record, HasTimestamp)
              points == last.ret.data_points
              remote == extract_data_points(SameRawStreams(timed), 1000)
          IN  /\ ~remote.raised
              /\ DOMAIN remote.points = DOMAIN points
              /\ \A i \in DOMAIN points :
                   \A f \in DOMAIN ChannelOfField :
                     /\ f \in DOMAIN points[i] <=>
                           (f \in DOMAIN timed[i] /\ Nonzero(timed[i][f]))
                     /\ Get(timed[i], f) = Num(0) =>
                           /\ f \in DOMAIN remote.points[i]
                           /\ remote.points[i][f] = Num(0)
              /\ \A f \in DOMAIN SessionField :
                   last.ret.workout_data[f] = None <=>
                       \A k \in DOMAIN last.fit.session :
                           ~Nonzero(Get(last.fit.session[k], SessionField[f]))
    /\ (last.op = "parse_strava_activity" /\ last.ret.data_points # None) =>
          \A i \in DOMAIN last.ret.data_points.items :
             \A f \in DOMAIN ChannelOfField :
                LET stream == Channel(last.streams, ChannelOfField[f])
                IN  (i \in DOMAIN stream /\ stream[i] \in {Num(0), Float(0)}) =>
                       /\ f \in DOMAIN last.ret.data_points.items[i]
                       /\ last.ret.data_points.items[i][f] = Num(0)

\* C28 witness: a file whose second record has power 0 and whose zones
\* message has an FTP of 0 gives a second point with the timestamp alone and
\* no ftp, next to a first point with its power.
C28_Witness ==
    /\ last.op = "parse_fit_file"
    /\ ~last.ret.raised
    /\ Len(last.fit.record) = 2
    /\ last.fit.record[2] = [timestamp |-> DT(101), power |-> Num(0)]
    /\ Len(last.ret.data_points) = 2
    /\ "power" \in DOMAIN last.ret.data_points[1]
    /\ DOMAIN last.ret.data_points[2] = {"timestamp"}
    /\ last.fit.zones_target = << [functional_threshold_power |-> Num(0)] >>
    /\ last.ret.workout_data.ftp = None

====
